---- MODULE Spec2Model ----
(***************************************************************************)
(* Model of the trading analysis bot: the response parser of               *)
(* deepseek_analyzer.py, the alert decision of trading_bot.py and the      *)
(* analysis cycle / polling loop of trading_bot.py.                        *)
(*                                                                         *)
(* Units: confidence values are whole percents; adjustment_percent and     *)
(* adjustment_threshold are tenths of a percent (2.0% is 20).              *)
(***************************************************************************)
EXTENDS Integers, Sequences, FiniteSets, TLC

(***************************************************************************)
(* Python / JSON values.  Every value is a record of one shape:            *)
(*   t : "missing" (key not in the dict), "null" (None), "bool", "num",    *)
(*       "str", "list"                                                     *)
(*   n : the number (bool: 1 / 0; numeric string: the number it spells)    *)
(*   s : the text of a string; "num" marks a string that spells n          *)
(***************************************************************************)
Missing == [t |-> "missing", n |-> 0, s |-> ""]
Null == [t |-> "null", n |-> 0, s |-> ""]
Bool(b) == [t |-> "bool", n |-> IF b THEN 1 ELSE 0, s |-> ""]
Num(x) == [t |-> "num", n |-> x, s |-> ""]
Str(x) == [t |-> "str", n |-> 0, s |-> x]
StrNum(x) == [t |-> "str", n |-> x, s |-> "num"]
List == [t |-> "list", n |-> 0, s |-> ""]

\* dict.get(key, default): the default is used only when the key is absent.
Get(v, default) == IF v.t = "missing" THEN default ELSE v

\* Python truth value of a value (None, False, 0, "" are false).
Truthy(v) ==
    CASE v.t = "missing" -> FALSE
      [] v.t = "null" -> FALSE
      [] v.t = "bool" -> v.n = 1
      [] v.t = "num" -> v.n # 0
      [] v.t = "str" -> v.s # ""
      [] OTHER -> TRUE

\* float(v) succeeds on numbers, bools and strings that spell a number;
\* it raises TypeError on None / list and ValueError on other strings.
FloatOk(v) == v.t \in {"num", "bool"} \/ (v.t = "str" /\ v.s = "num")
FloatVal(v) == v.n

\* v < number is defined for numbers and bools; it raises TypeError otherwise.
OrderOk(v) == v.t \in {"num", "bool"}

\* str.upper() on the strings the model uses.
Upper(s) ==
    CASE s = "buy_long" -> "BUY_LONG"
      [] s = "buy_short" -> "BUY_SHORT"
      [] s = "sell" -> "SELL"
      [] s = "adjust_stops" -> "ADJUST_STOPS"
      [] s = "hold" -> "HOLD"
      [] s = "watch" -> "WATCH"
      [] OTHER -> s

Abs(x) == IF x < 0 THEN 0 - x ELSE x

(***************************************************************************)
(* stop_adjustment: absent, null, or an object with its five subfields.    *)
(***************************************************************************)
SA(t, sa, tp, sl, r, ap) ==
    [t |-> t, should_adjust |-> sa, new_take_profit |-> tp,
     new_stop_loss |-> sl, reason |-> r, adjustment_percent |-> ap]
SAMissing == SA("missing", Missing, Missing, Missing, Missing, Missing)
SANull == SA("null", Missing, Missing, Missing, Missing, Missing)
\* deepseek_analyzer.py: the default stop_adjustment of the parser
DefaultStopAdjustment == SA("obj", Bool(FALSE), Null, Null, Str(""), Missing)

\* The sentinel the parser writes for a missing required field (a two
\* character non-ASCII string meaning "unknown"; upper() leaves it as it is).
UNKNOWN == "UNKNOWN_CN"

\* A dict with the keys of an analysis result.
Dict(rec, conf, an, rs, sup, res, pa, sadj, ua, ur) ==
    [recommendation |-> rec, confidence |-> conf, analysis |-> an,
     reasoning |-> rs, support_levels |-> sup, resistance_levels |-> res,
     position_action |-> pa, stop_adjustment |-> sadj, urgent_action |-> ua,
     urgent_reason |-> ur]
EmptyDict ==
    Dict(Missing, Missing, Missing, Missing, Missing, Missing, Missing,
         SAMissing, Missing, Missing)

(***************************************************************************)
(* The LLM response.  envelope: the response has choices[0].message.content *)
(* holding a string.  text: the content as a sequence of tokens: "{" and   *)
(* "}" are lone braces, "p" is brace-free prose and "O" is the text of one *)
(* complete JSON object (it starts with a brace and ends with one), whose  *)
(* members are obj.                                                        *)
(***************************************************************************)
Response(env, text, obj) == [envelope |-> env, text |-> text, obj |-> obj]

HasOpen(tok) == tok \in {"{", "O"}
HasClose(tok) == tok \in {"}", "O"}

\* '{' in content, '}' in content
ContainsOpen(text) == \E i \in 1..Len(text) : HasOpen(text[i])
ContainsClose(text) == \E i \in 1..Len(text) : HasClose(text[i])

\* content.find('{'): the first token with an opening brace (1-based)
Find(text) ==
    CHOOSE i \in 1..Len(text) :
        HasOpen(text[i]) /\ \A j \in 1..(i - 1) : ~HasOpen(text[j])
\* content.rfind('}'): the last token with a closing brace (1-based)
RFind(text) ==
    CHOOSE i \in 1..Len(text) :
        HasClose(text[i]) /\ \A j \in (i + 1)..Len(text) : ~HasClose(text[j])

\* content[json_start:json_end]; empty when the last '}' precedes the first '{'
JsonStr(text) == SubSeq(text, Find(text), RFind(text))

\* json.loads(json_str): the span is valid JSON exactly when it is one
\* complete object, or an empty pair of braces; anything else raises.
JsonLoadsOk(span) == span = <<"O">> \/ span = <<"{", "}">>
\* mutant: the members of the parsed object are dropped
JsonLoadsEmpty(span, obj) == EmptyDict
JsonLoads(span, obj) == IF span = <<"O">> THEN obj ELSE EmptyDict

RECURSIVE Join(_)
Join(text) == IF text = <<>> THEN "" ELSE Head(text) \o Join(Tail(text))
\* the content string as a value
Content(text) == Str(Join(text))

\* mutant: a missing required field is left missing
FillRequiredKeep(v) == v
\* deepseek_analyzer.py 351-355: missing required fields get the sentinel
FillRequired(v) == Get(v, Str(UNKNOWN))

\* deepseek_analyzer.py 360-366: stop_adjustment defaulted only when the key
\* is absent; a null or partly filled value is kept as it is
FillStopAdjustment(sadj) ==
    IF sadj.t = "missing" THEN DefaultStopAdjustment ELSE sadj

\* deepseek_analyzer.py 351-372: the JSON branch
FillDefaults(result) ==
    [result EXCEPT
        !.recommendation = FillRequired(@),
        !.confidence = FillRequired(@),
        !.analysis = FillRequired(@),
        !.reasoning = FillRequired(@),
        !.position_action = Get(@, Str("HOLD")),
        !.stop_adjustment = FillStopAdjustment(@),
        !.urgent_action = Get(@, Bool(FALSE)),
        !.urgent_reason = Get(@, Str(""))]

\* deepseek_analyzer.py 374-390: no brace pair in the content
TextFallback(text) ==
    Dict(Str("HOLD"), Num(50), Content(text), Content(text), List, List,
         Str("HOLD"), DefaultStopAdjustment, Bool(FALSE), Str(""))

\* deepseek_analyzer.py 391-409: any exception while parsing
ParseFailed ==
    Dict(Str("HOLD"), Num(0), Str("parse_failed"), Str("parse_failed_error"),
         List, List, Str("HOLD"), DefaultStopAdjustment, Bool(FALSE), Str(""))

\* DeepSeekAnalyzer._parse_analysis_response
ParseAnalysisResponse(response) ==
    IF ~response.envelope
    THEN ParseFailed
    ELSE IF ContainsOpen(response.text) /\ ContainsClose(response.text)
         THEN IF JsonLoadsOk(JsonStr(response.text))
              THEN FillDefaults(JsonLoads(JsonStr(response.text), response.obj))
              ELSE ParseFailed
         ELSE TextFallback(response.text)

\* deepseek_analyzer.py 332-337: what _call_deepseek_api raises; api is
\* "timeout" (the request timed out) or "status" (a non-2xx status or another
\* request error, raised again as it is)
ApiErrors == {"timeout", "status"}
ApiErrorText(api) ==
    IF api = "timeout" THEN "api_timeout_check_network" ELSE "http_error"

\* mutant: the failure result copies the confidence of the text fallback
AnalysisFailedHalf(e) ==
    Dict(Str("HOLD"), Num(50), Str("analysis_failed"),
         Str("analysis_error: " \o e), List, List, Str("HOLD"), SANull,
         Bool(FALSE), Missing)

\* deepseek_analyzer.py 70-82: the result returned when the API call raised
\* the exception whose text is e
AnalysisFailed(e) ==
    Dict(Str("HOLD"), Num(0), Str("analysis_failed"),
         Str("analysis_error: " \o e), List, List, Str("HOLD"), SANull,
         Bool(FALSE), Missing)

\* DeepSeekAnalyzer.analyze_market_data, lines 64-82 (the try block): api is
\* "ok" when _call_deepseek_api returned the response, and names the error
\* when it raised.
AnalyzeMarketData(api, response) ==
    IF api = "ok" THEN ParseAnalysisResponse(response)
    ELSE AnalysisFailed(ApiErrorText(api))

(***************************************************************************)
(* Configuration: strategy presets and the override of the confidence      *)
(* threshold by the environment.                                           *)
(***************************************************************************)
Strategies == {"aggressive", "balanced", "conservative"}

\* strategy_config.py STRATEGY_PARAMS (adjustment_threshold in tenths)
STRATEGY_PARAMS ==
    [st \in Strategies |->
        CASE st = "aggressive" ->
                [analysis_interval |-> 60, confidence_threshold |-> 70,
                 adjustment_threshold |-> 12]
          [] st = "balanced" ->
                [analysis_interval |-> 180, confidence_threshold |-> 75,
                 adjustment_threshold |-> 20]
          [] OTHER ->
                [analysis_interval |-> 600, confidence_threshold |-> 80,
                 adjustment_threshold |-> 30]]

\* config.py Config.__init__: the trading configuration of a strategy;
\* override is the value of CONFIDENCE_THRESHOLD and interval that of
\* ANALYSIS_INTERVAL, Missing when it is not set
TradingConfig(st, override, interval) ==
    [analysis_interval |->
        IF interval.t = "missing" THEN STRATEGY_PARAMS[st].analysis_interval
        ELSE FloatVal(interval),
     confidence_threshold |->
        IF override.t = "missing" THEN STRATEGY_PARAMS[st].confidence_threshold
        ELSE FloatVal(override),
     adjustment_threshold |-> STRATEGY_PARAMS[st].adjustment_threshold]

(***************************************************************************)
(* The alert decision.  The result is "TRUE", "FALSE", or "RAISE" when the *)
(* method raises (AttributeError, TypeError or ValueError).                *)
(***************************************************************************)
\* mutant: the comparison of line 129 written as >=
ExceedsThresholdOrEqual(adj_value, threshold) == adj_value >= threshold
\* trading_bot.py 129: adj_value > threshold
ExceedsThreshold(adj_value, threshold) == adj_value > threshold

\* trading_bot.py 122-137: the ADJUST_STOPS branch
AdjustStopsDecision(result, threshold) ==
    LET stop_adjustment == result.stop_adjustment
        adjustment_percent == stop_adjustment.adjustment_percent
    IN  IF stop_adjustment.t = "null"
        THEN "RAISE"
        ELSE IF Truthy(adjustment_percent)
             THEN IF ~FloatOk(adjustment_percent)
                  THEN "RAISE"
                  ELSE IF ExceedsThreshold(Abs(FloatVal(adjustment_percent)),
                                           threshold)
                       THEN "TRUE"
                       ELSE "FALSE"
             ELSE "FALSE"

\* mutant: the gate of line 112 written as <=
BelowOrAtThreshold(confidence, threshold) == confidence <= threshold
\* trading_bot.py 112: confidence < self.confidence_threshold
BelowThreshold(confidence, threshold) == confidence < threshold

\* mutant: the list of line 117 without BUY_SHORT
TradeActionsLongOnly == {"BUY_LONG", "SELL"}
\* trading_bot.py 117: the recommendations that always notify
TradeActions == {"BUY_LONG", "BUY_SHORT", "SELL"}

\* trading_bot.py 112-137: the decision below the urgent check
GatedDecision(result, cfg) ==
    LET confidence == Get(result.confidence, Num(0))
        recommendation == Upper(Get(result.recommendation, Str("")).s)
    IN  IF ~OrderOk(confidence)
        THEN "RAISE"
        ELSE IF BelowThreshold(confidence.n, cfg.confidence_threshold)
             THEN "FALSE"
             ELSE IF recommendation \in TradeActions
                  THEN "TRUE"
                  ELSE IF recommendation = "ADJUST_STOPS"
                       THEN AdjustStopsDecision(result, cfg.adjustment_threshold)
                       ELSE "FALSE"

\* mutant: the confidence gate placed above the urgent check
ShouldSendEmailAlertGateFirst(result, cfg) ==
    LET rec == Get(result.recommendation, Str(""))
        confidence == Get(result.confidence, Num(0))
    IN  IF rec.t # "str"
        THEN "RAISE"
        ELSE IF ~OrderOk(confidence)
             THEN "RAISE"
             ELSE IF BelowThreshold(confidence.n, cfg.confidence_threshold)
                  THEN "FALSE"
                  ELSE IF Truthy(Get(result.urgent_action, Bool(FALSE)))
                       THEN "TRUE"
                       ELSE GatedDecision(result, cfg)

\* TradingAnalysisBot._should_send_email_alert
ShouldSendEmailAlert(result, cfg) ==
    LET rec == Get(result.recommendation, Str(""))
    IN  IF rec.t # "str"
        THEN "RAISE"
        ELSE IF Truthy(Get(result.urgent_action, Bool(FALSE)))
             THEN "TRUE"
             ELSE GatedDecision(result, cfg)

\* trading_bot.py 48-64: building analysis_data raises when float() of the
\* confidence raises
PrepareOk(result) == FloatOk(Get(result.confidence, Num(0)))

\* trading_bot.py 216-297: _print_analysis_result raises on a null
\* stop_adjustment or a string adjustment_percent of an ADJUST_STOPS
\* recommendation (format ':.2f') and on a summary without a length
PrintOk(result) ==
    LET rec == Get(result.recommendation, Str("HOLD"))
        sadj == result.stop_adjustment
        summary == Get(result.analysis, Str(""))
    IN  /\ (rec.t = "str" /\ rec.s = "ADJUST_STOPS") =>
              /\ sadj.t # "null"
              /\ Truthy(sadj.adjustment_percent) =>
                    sadj.adjustment_percent.t \in {"num", "bool"}
        /\ summary.t \in {"str", "list"}

(***************************************************************************)
(* Bounds and input sets                                                   *)
(***************************************************************************)
\* longest content, in tokens
MaxLen == 3
\* number of cycles the polling loop is followed for
MaxCycles == 2

Tokens == {"{", "}", "p", "O"}
Texts == UNION {[1..n -> Tokens] : n \in 0..MaxLen}

Actions == {"BUY_LONG", "BUY_SHORT", "SELL", "ADJUST_STOPS", "HOLD", "WATCH"}

RecVals == {Missing, Null} \cup {Str(a) : a \in Actions \cup {"sell"}}
ConfVals == {Missing, Null, Num(0), Num(75), Num(79), Num(90), StrNum(85)}
UrgentVals == {Missing, Bool(TRUE), Bool(FALSE)}
PercentVals ==
    {Missing, Null, Num(0), Num(12), Num(20), Num(0 - 20), Num(30), Num(35),
     Num(0 - 35), StrNum(35)}
StopAdjustmentVals ==
    {SAMissing, SANull,
     SA("obj", Missing, Missing, Missing, Missing, Str("big"))}
    \cup {SA("obj", Missing, Missing, Missing, Missing, ap) : ap \in PercentVals}
    \cup {SA("obj", Bool(TRUE), Num(2100), Null, Str("r"), ap) : ap \in PercentVals}

\* which of the other keys the object has: all, only analysis, none
Shapes == {"all", "analysis", "none"}
Obj(rec, conf, sadj, ua, shape) ==
    Dict(rec, conf,
         IF shape = "none" THEN Missing ELSE Str("a"),
         IF shape = "all" THEN Str("r") ELSE Missing,
         IF shape = "all" THEN List ELSE Missing,
         IF shape = "all" THEN List ELSE Missing,
         IF shape = "all" THEN Str("HOLD") ELSE Missing,
         sadj, ua,
         IF shape = "all" THEN Str("u") ELSE Missing)

AllObjs ==
    {Obj(rec, conf, sadj, ua, shape) :
        rec \in RecVals, conf \in ConfVals, sadj \in StopAdjustmentVals,
        ua \in UrgentVals, shape \in Shapes}

PlainSA == SA("obj", Bool(FALSE), Null, Null, Str(""), Null)
\* a few objects, used where the content or the history of cycles varies
CoreObjs ==
    {EmptyDict,
     Obj(Str("SELL"), Num(90), PlainSA, Bool(FALSE), "all"),
     Obj(Str("HOLD"), Num(90), PlainSA, Bool(FALSE), "all"),
     Obj(Str("SELL"), Missing, PlainSA, Bool(FALSE), "all"),
     Obj(Missing, Num(90), PlainSA, Bool(FALSE), "all"),
     Obj(Str("BUY_LONG"), Num(79), SAMissing, Missing, "analysis"),
     Obj(Str("ADJUST_STOPS"), Num(90), SANull, Bool(FALSE), "all"),
     Obj(Str("ADJUST_STOPS"), Num(90), SANull, Bool(TRUE), "all"),
     Obj(Str("ADJUST_STOPS"), Num(90),
         SA("obj", Bool(TRUE), Num(2100), Null, Str("r"), Num(35)),
         Bool(FALSE), "all"),
     Obj(Str("HOLD"), Num(0), PlainSA, Bool(TRUE), "all")}

\* one exchange with the LLM endpoint: api "ok" with the response, or the
\* error _call_deepseek_api raised
Call(api, response) == [api |-> api, response |-> response]
NoCall == Call("none", Response(FALSE, <<>>, EmptyDict))

FnCalls ==
    {Call("ok", Response(TRUE, <<"O">>, obj)) : obj \in AllObjs}
    \cup {Call("ok", Response(TRUE, text, obj)) : text \in Texts, obj \in CoreObjs}
    \cup {Call("ok", Response(FALSE, <<>>, EmptyDict)),
          Call("timeout", Response(FALSE, <<>>, EmptyDict)),
          Call("status", Response(FALSE, <<>>, EmptyDict))}

CycleCalls ==
    {Call("ok", Response(TRUE, <<"O">>, obj)) : obj \in CoreObjs}
    \cup {Call("ok", Response(TRUE, text, EmptyDict)) :
            text \in {<<"p">>, <<"{", "p", "}">>}}
    \cup {Call("ok", Response(FALSE, <<>>, EmptyDict)),
          Call("timeout", Response(FALSE, <<>>, EmptyDict)),
          Call("status", Response(FALSE, <<>>, EmptyDict))}

Configs ==
    {TradingConfig(st, override, Missing) :
        st \in Strategies, override \in {Missing, StrNum(0), StrNum(0 - 10)}}
    \cup {TradingConfig("balanced", Missing, StrNum(0))}

\* the configurations the loop is run with
CycleConfigs ==
    {TradingConfig(st, Missing, Missing) : st \in Strategies}
    \cup {TradingConfig("balanced", StrNum(0), Missing),
          TradingConfig("balanced", Missing, StrNum(0))}

(***************************************************************************)
(* Positions.  Prices are whole numbers; size is in units of 0.00001, so   *)
(* that 100000 is a size of 1.  pnl_percent is in hundredths of a percent  *)
(* and pnl_amount in units of 0.0001: the places round() keeps.            *)
(***************************************************************************)
Position(direction, entry_price, size, leverage, take_profit, stop_loss) ==
    [direction |-> direction, entry_price |-> entry_price, size |-> size,
     leverage |-> leverage, take_profit |-> take_profit,
     stop_loss |-> stop_loss]

\* mutant: the distance of the price from the entry, whatever its side
PriceMoveAbs(direction, entry_price, price) == Abs(price - entry_price)

\* deepseek_analyzer.py 45-50: the price difference a position gains on
PriceMove(direction, entry_price, price) ==
    IF direction = "long" THEN price - entry_price ELSE entry_price - price

\* mutant: the digits after the kept places are cut off
RoundDown(num, den) == {num \div den}

\* round(num / den, places), counted in units of the last kept place: the
\* nearest whole number; when num / den lies halfway between two, which one
\* is returned depends on the binary representation of the float, so both
\* are outcomes.  den > 0.
Round(num, den) ==
    IF 2 * (num % den) < den THEN {num \div den}
    ELSE IF 2 * (num % den) > den THEN {(num \div den) + 1}
    ELSE {num \div den, (num \div den) + 1}

Pnl(percent, amount) == [ok |-> TRUE, pnl_percent |-> percent, pnl_amount |-> amount]
\* ZeroDivisionError of line 46 or 49
PnlRaised == [ok |-> FALSE, pnl_percent |-> 0, pnl_amount |-> 0]
NoPnl == [ok |-> FALSE, pnl_percent |-> 0 - 1, pnl_amount |-> 0 - 1]

\* DeepSeekAnalyzer._calculate_position_pnl: the results the call can have
CalculatePositionPnl(pos, price) ==
    IF pos.entry_price = 0
    THEN {PnlRaised}
    ELSE {Pnl(percent, amount) :
            percent \in Round(PriceMove(pos.direction, pos.entry_price, price)
                                * 10000 * pos.leverage, pos.entry_price),
            amount \in Round(PriceMove(pos.direction, pos.entry_price, price)
                                * pos.size, 10)}

\* current_price >= level, for a level read by pos['...']: KeyError when the
\* key is missing, TypeError when the level is None
LevelOk(level) == level.t = "num"

\* mutant: for a long position the stop-loss test comes first
TriggerTestLossFirst(pos, price) ==
    IF pos.direction = "long"
    THEN IF ~LevelOk(pos.stop_loss) THEN "RAISE"
         ELSE IF price <= pos.stop_loss.n THEN "STOP_LOSS"
         ELSE IF ~LevelOk(pos.take_profit) THEN "RAISE"
         ELSE IF price >= pos.take_profit.n THEN "TAKE_PROFIT"
         ELSE "NONE"
    ELSE IF ~LevelOk(pos.take_profit) THEN "RAISE"
         ELSE IF price <= pos.take_profit.n THEN "TAKE_PROFIT"
         ELSE IF ~LevelOk(pos.stop_loss) THEN "RAISE"
         ELSE IF price >= pos.stop_loss.n THEN "STOP_LOSS"
         ELSE "NONE"

\* deepseek_analyzer.py 207-219: the trigger test of _format_position_info
TriggerTest(pos, price) ==
    IF pos.direction = "long"
    THEN IF ~LevelOk(pos.take_profit) THEN "RAISE"
         ELSE IF price >= pos.take_profit.n THEN "TAKE_PROFIT"
         ELSE IF ~LevelOk(pos.stop_loss) THEN "RAISE"
         ELSE IF price <= pos.stop_loss.n THEN "STOP_LOSS"
         ELSE "NONE"
    ELSE IF ~LevelOk(pos.take_profit) THEN "RAISE"
         ELSE IF price <= pos.take_profit.n THEN "TAKE_PROFIT"
         ELSE IF ~LevelOk(pos.stop_loss) THEN "RAISE"
         ELSE IF price >= pos.stop_loss.n THEN "STOP_LOSS"
         ELSE "NONE"

\* deepseek_analyzer.py 204-219: _format_position_info values the position
\* first, so an error of _calculate_position_pnl is raised before the test
FormatPositionInfo(pos, price, result) ==
    IF ~result.ok THEN "RAISE" ELSE TriggerTest(pos, price)

MaxLeverage == 5
MaxOverrun == 5
Directions == {"long", "short"}
Prices == {2, 3, 4, 90, 100, 110}
EntryPrices == {0, 3, 100}
Sizes == {1, 5, 100000}
Levels == {Missing, Null, Num(90), Num(110)}
Positions ==
    {Position(d, e, sz, l, tp, sl) :
        d \in Directions, e \in EntryPrices, sz \in Sizes,
        l \in 1..MaxLeverage, tp \in Levels, sl \in Levels}
NoPosition == Position("none", 0, 0, 0, Missing, Missing)

\* mutant: the wait is what is left of the interval, without the floor
WaitTimeNoFloor(interval, elapsed_time) == 10 * interval - elapsed_time

\* trading_bot.py 323: wait_time = max(1, interval - elapsed), in tenths of
\* a second
WaitTime(interval, elapsed_time) ==
    IF 10 * interval - elapsed_time > 10 THEN 10 * interval - elapsed_time
    ELSE 10

\* the durations a cycle can have, in tenths of a second: short of the
\* interval by more than, exactly or less than one second, and overrunning
ElapsedTimes(interval) ==
    {e \in {10 * interval - 15, 10 * interval - 10, 10 * interval - 5,
            10 * (interval + MaxOverrun)} : e >= 0}

(***************************************************************************)
(* The decision in its surroundings: the positions file holds pos (its     *)
(* first position, NoPosition when there is none) and the market price is  *)
(* price.                                                                  *)
(***************************************************************************)
\* TradingAnalysisBot._is_significant_stop_adjustment: "TRUE", "FALSE", or
\* "RAISE" (line 153 is outside the try: None has no get).  A level moved by
\* more than 2% of the price is significant; an error of the comparison is
\* caught and gives False.
IsSignificantStopAdjustment(stop_adjustment, pos, price) ==
    IF stop_adjustment.t # "obj"
    THEN "RAISE"
    ELSE IF ~Truthy(Get(stop_adjustment.should_adjust, Bool(FALSE))) \/ price = 0
    THEN "FALSE"
    ELSE IF pos = NoPosition
    THEN "FALSE"
    ELSE LET old_tp == Get(pos.take_profit, Num(0))
             old_sl == Get(pos.stop_loss, Num(0))
             new_tp == Get(stop_adjustment.new_take_profit, Null)
             new_sl == Get(stop_adjustment.new_stop_loss, Null)
         IN  IF Truthy(new_tp) /\ Truthy(old_tp)
                /\ (new_tp.t # "num" \/ old_tp.t # "num")
             THEN "FALSE"
             ELSE IF Truthy(new_tp) /\ Truthy(old_tp)
                     /\ 50 * Abs(new_tp.n - old_tp.n) > price
             THEN "TRUE"
             ELSE IF Truthy(new_sl) /\ Truthy(old_sl)
                     /\ (new_sl.t # "num" \/ old_sl.t # "num")
             THEN "FALSE"
             ELSE IF Truthy(new_sl) /\ Truthy(old_sl)
                     /\ 50 * Abs(new_sl.n - old_sl.n) > price
             THEN "TRUE"
             ELSE "FALSE"

\* mutant: for ADJUST_STOPS the fixed 2%-of-price test is run as well and a
\* significant adjustment notifies
ShouldSendEmailAlertWithBand(result, config, pos, price) ==
    IF /\ ShouldSendEmailAlert(result, config) = "FALSE"
       /\ result.recommendation = Str("ADJUST_STOPS")
    THEN IsSignificantStopAdjustment(result.stop_adjustment, pos, price)
    ELSE ShouldSendEmailAlert(result, config)

\* trading_bot.py 71: _should_send_email_alert(analysis_result), called in
\* these surroundings; the method reads neither the positions nor the price
\* and _is_significant_stop_adjustment is not called from anywhere
ShouldSendEmailAlertIn(result, config, pos, price) ==
    ShouldSendEmailAlert(result, config)

\* the surroundings and recommendations the decision is compared over
DecPositions ==
    {NoPosition,
     Position("long", 100, 100000, 1, Num(90), Num(110)),
     Position("long", 100, 100000, 1, Null, Null)}
DecPrices == {0, 100}
DecCalls ==
    {Call("ok", Response(TRUE, <<"O">>, Obj(rec, Num(90), sadj, ua, "all"))) :
        rec \in {Str("ADJUST_STOPS"), Str("SELL"), Str("HOLD")},
        sadj \in StopAdjustmentVals, ua \in {Bool(TRUE), Bool(FALSE)}}

(***************************************************************************)
(* State                                                                   *)
(***************************************************************************)
VARIABLES
    cfg,                \* config.trading: thresholds and interval
    storeFaults,        \* whether calls of the persistence store may raise
    pc,                 \* position of the bot in the loop / the cycle
    cycle,              \* number of cycles started
    analysis_count,     \* self.analysis_count
    email_alerts_sent,  \* self.email_alerts_sent
    call,               \* the exchange with the LLM endpoint of this cycle
    analysis_result,    \* analysis_result of run_analysis_cycle
    should_send_email,  \* should_send_email: "none" until DECIDE has run
    record_id,          \* analysis_data['record_id'], 0 before PERSIST
    email_sent,         \* analysis_data['email_sent']: "unset", "TRUE", "FALSE"
    records,            \* store: analysis records, record id = index
    alerts,             \* store: alert-log entries
    deliveries,         \* history: the delivery attempts made at the notifier
    returned,           \* what the last call of run_analysis_cycle returned
    failed,             \* the stage that raised in that call, or "none"
    count0,             \* history: analysis_count when the cycle started
    stages,             \* history: the stages completed in the current cycle
    interrupted,        \* the operator has interrupted the process
    elapsed,            \* elapsed of the loop, in tenths of a second
    wait_time,          \* wait_time of the loop, in tenths of a second
    position,           \* a position of positions.json
    current_price,      \* the price the position is valued at
    other_price,        \* a second price the same position is valued at
    pnl,                \* _calculate_position_pnl(position, current_price)
    other_pnl,          \* _calculate_position_pnl(position, other_price)
    triggered,          \* the outcome of the trigger test at current_price
    other_position,     \* a second position snapshot a decision is made in
    other_decision      \* the decision made with other_position, other_price

vars ==
    <<cfg, storeFaults, pc, cycle, analysis_count, email_alerts_sent, call,
      analysis_result, should_send_email, record_id, email_sent, records,
      alerts, deliveries, returned, failed, count0, stages, interrupted,
      elapsed, wait_time, position, current_price, other_price, pnl,
      other_pnl, triggered, other_position, other_decision>>

waitVars == <<elapsed, wait_time>>
posVars ==
    <<position, current_price, other_price, pnl, other_pnl, triggered,
      other_position, other_decision>>

\* TradingAnalysisBot.__init__ and the start of start_continuous_analysis
InitBot ==
    /\ cycle = 0
    /\ analysis_count = 0
    /\ email_alerts_sent = 0
    /\ analysis_result = EmptyDict
    /\ should_send_email = "none"
    /\ record_id = 0
    /\ email_sent = "unset"
    /\ records = <<>>
    /\ alerts = <<>>
    /\ deliveries = <<>>
    /\ returned = "nothing"
    /\ failed = "none"
    /\ count0 = 0
    /\ stages = <<>>
    /\ interrupted = FALSE
    /\ elapsed = 0
    /\ wait_time = 0

\* no position is being valued
NoPositionRun ==
    /\ position = NoPosition
    /\ current_price = 0
    /\ other_price = 0
    /\ pnl = NoPnl
    /\ other_pnl = NoPnl
    /\ triggered = "none"
    /\ other_position = NoPosition
    /\ other_decision = "none"

(***************************************************************************)
(* Parser and decision applied to one response                             *)
(***************************************************************************)
InitFn ==
    /\ InitBot
    /\ NoPositionRun
    /\ cfg \in Configs
    /\ storeFaults = FALSE
    /\ pc = "fn_input"
    /\ call \in FnCalls

\* analyze_market_data applied to the exchange
FnAnalyze ==
    /\ pc = "fn_input"
    /\ analysis_result' = AnalyzeMarketData(call.api, call.response)
    /\ pc' = "fn_parsed"
    /\ UNCHANGED <<posVars, waitVars, cfg, storeFaults, cycle, analysis_count, email_alerts_sent,
                   call, should_send_email, record_id, email_sent, records,
                   alerts, deliveries, returned, failed, count0, stages,
                   interrupted>>

\* _should_send_email_alert applied to the analysis result
FnDecide ==
    /\ pc = "fn_parsed"
    /\ should_send_email' = ShouldSendEmailAlert(analysis_result, cfg)
    /\ pc' = "fn_decided"
    /\ UNCHANGED <<posVars, waitVars, cfg, storeFaults, cycle, analysis_count, email_alerts_sent,
                   call, analysis_result, record_id, email_sent, records,
                   alerts, deliveries, returned, failed, count0, stages,
                   interrupted>>

NextFn == FnAnalyze \/ FnDecide

SpecFn == InitFn /\ [][NextFn]_vars

(***************************************************************************)
(* The position functions applied to one position and two prices           *)
(***************************************************************************)
InitPos ==
    /\ InitBot
    /\ cfg = TradingConfig("balanced", Missing, Missing)
    /\ storeFaults = FALSE
    /\ call = NoCall
    /\ pc = "pos_input"
    /\ position \in Positions
    /\ current_price \in Prices
    /\ other_price \in Prices
    /\ pnl = NoPnl
    /\ other_pnl = NoPnl
    /\ triggered = "none"
    /\ other_position = NoPosition
    /\ other_decision = "none"

\* _calculate_position_pnl applied to the position at each of the prices
PosValue ==
    /\ pc = "pos_input"
    /\ pnl' \in CalculatePositionPnl(position, current_price)
    /\ other_pnl' \in CalculatePositionPnl(position, other_price)
    /\ current_price = other_price => pnl' = other_pnl'
    /\ pc' = "pos_valued"
    /\ UNCHANGED <<position, current_price, other_price, triggered,
                   other_position, other_decision, waitVars,
                   cfg, storeFaults, cycle, analysis_count, email_alerts_sent,
                   call, analysis_result, should_send_email, record_id,
                   email_sent, records, alerts, deliveries, returned, failed,
                   count0, stages, interrupted>>

\* the trigger test of _format_position_info at current_price
PosTrigger ==
    /\ pc = "pos_valued"
    /\ triggered' = FormatPositionInfo(position, current_price, pnl)
    /\ pc' = "pos_done"
    /\ UNCHANGED <<position, current_price, other_price, pnl, other_pnl,
                   other_position, other_decision, waitVars, cfg, storeFaults, cycle, analysis_count,
                   email_alerts_sent, call, analysis_result,
                   should_send_email, record_id, email_sent, records, alerts,
                   deliveries, returned, failed, count0, stages, interrupted>>

NextPos == PosValue \/ PosTrigger

SpecPos == InitPos /\ [][NextPos]_vars

(***************************************************************************)
(* The decision made on one recommendation in two surroundings             *)
(***************************************************************************)
InitDec ==
    /\ InitBot
    /\ cfg \in CycleConfigs
    /\ storeFaults = FALSE
    /\ call \in DecCalls
    /\ pc = "dec_input"
    /\ position \in DecPositions
    /\ other_position \in DecPositions
    /\ current_price \in DecPrices
    /\ other_price \in DecPrices
    /\ pnl = NoPnl
    /\ other_pnl = NoPnl
    /\ triggered = "none"
    /\ other_decision = "none"

\* analyze_market_data applied to the exchange
DecAnalyze ==
    /\ pc = "dec_input"
    /\ analysis_result' = AnalyzeMarketData(call.api, call.response)
    /\ pc' = "dec_parsed"
    /\ UNCHANGED <<posVars, waitVars, cfg, storeFaults, cycle, analysis_count,
                   email_alerts_sent, call, should_send_email, record_id,
                   email_sent, records, alerts, deliveries, returned, failed,
                   count0, stages, interrupted>>

\* _should_send_email_alert applied to the same analysis result with each of
\* the two position snapshots and prices
DecDecide ==
    /\ pc = "dec_parsed"
    /\ should_send_email' =
            ShouldSendEmailAlertIn(analysis_result, cfg, position, current_price)
    /\ other_decision' =
            ShouldSendEmailAlertIn(analysis_result, cfg, other_position,
                                   other_price)
    /\ pc' = "dec_decided"
    /\ UNCHANGED <<position, current_price, other_price, pnl, other_pnl,
                   triggered, other_position, waitVars, cfg, storeFaults,
                   cycle, analysis_count, email_alerts_sent, call,
                   analysis_result, record_id, email_sent, records, alerts,
                   deliveries, returned, failed, count0, stages, interrupted>>

NextDec == DecAnalyze \/ DecDecide

SpecDec == InitDec /\ [][NextDec]_vars

(***************************************************************************)
(* The analysis cycle and the polling loop                                 *)
(***************************************************************************)
Init ==
    /\ InitBot
    /\ NoPositionRun
    /\ cfg \in CycleConfigs
    /\ storeFaults = FALSE
    /\ pc = "loop"
    /\ call = NoCall

\* the same, with a persistence store whose calls may raise
InitFaulty ==
    /\ InitBot
    /\ NoPositionRun
    /\ cfg \in CycleConfigs
    /\ storeFaults = TRUE
    /\ pc = "loop"
    /\ call = NoCall

\* store.save_analysis: the record is stored with its sent flag false; its
\* identifier is its index
SaveAnalysis(recs, c) ==
    Append(recs, [cycle |-> c, email_sent |-> FALSE, marks |-> 0])

\* store.save_email_alert: the entry is added to the alert log
SaveEmailAlert(log, id, success) ==
    Append(log, [record_id |-> id, sent_successfully |-> success])

\* store.mark_email_sent: the sent flag of the record is set (marks counts
\* the calls)
MarkEmailSent(recs, id) ==
    [recs EXCEPT ![id] = [@ EXCEPT !.email_sent = TRUE, !.marks = @ + 1]]

\* the outcomes a call of the store can have
StoreOutcomes == IF storeFaults THEN {"ok", "raise"} ELSE {"ok"}

\* mutant: the handler of the cycle counts the failed cycle as an analysis
CycleExceptCounting(stage) ==
    /\ pc' = "wait"
    /\ returned' = "None"
    /\ failed' = stage
    /\ analysis_count' = analysis_count + 1
    /\ UNCHANGED <<posVars, waitVars, cfg, storeFaults, cycle, email_alerts_sent,
                   call, analysis_result, should_send_email, record_id,
                   email_sent, records, alerts, deliveries, count0, stages,
                   interrupted>>

\* mutant: no handler at the cycle boundary, the exception ends the loop
CycleExceptPropagates(stage) ==
    /\ pc' = "stopped"
    /\ returned' = "None"
    /\ failed' = stage
    /\ UNCHANGED <<posVars, waitVars, cfg, storeFaults, cycle, analysis_count, email_alerts_sent,
                   call, analysis_result, should_send_email, record_id,
                   email_sent, records, alerts, deliveries, count0, stages,
                   interrupted>>

\* mutant: the handler of the cycle takes back the record the cycle saved
CycleExceptRollback(stage) ==
    /\ pc' = "wait"
    /\ returned' = "None"
    /\ failed' = stage
    /\ records' = IF record_id > 0 THEN SubSeq(records, 1, record_id - 1)
                  ELSE records
    /\ UNCHANGED <<posVars, waitVars, cfg, storeFaults, cycle, analysis_count,
                   email_alerts_sent, call, analysis_result,
                   should_send_email, record_id, email_sent, alerts,
                   deliveries, count0, stages, interrupted>>

\* trading_bot.py 87-89: an exception raised in `stage` is caught, the cycle
\* returns None and control is back in the loop
CycleExcept(stage) ==
    /\ pc' = "wait"
    /\ returned' = "None"
    /\ failed' = stage
    /\ UNCHANGED <<posVars, waitVars, cfg, storeFaults, cycle, analysis_count, email_alerts_sent,
                   call, analysis_result, should_send_email, record_id,
                   email_sent, records, alerts, deliveries, count0, stages,
                   interrupted>>

\* trading_bot.py 311-315 and 38: the loop calls run_analysis_cycle
StartCycle ==
    /\ pc = "loop"
    /\ cycle < MaxCycles
    /\ cycle' = cycle + 1
    /\ pc' = "fetch"
    /\ call' = NoCall
    /\ analysis_result' = EmptyDict
    /\ should_send_email' = "none"
    /\ record_id' = 0
    /\ email_sent' = "unset"
    /\ count0' = analysis_count
    /\ stages' = <<>>
    /\ UNCHANGED <<posVars, waitVars, cfg, storeFaults, analysis_count, email_alerts_sent,
                   records, alerts, deliveries, returned, failed, interrupted>>

\* trading_bot.py 42: get_all_market_data returns the snapshot or raises
Fetch ==
    /\ pc = "fetch"
    /\ \E ok \in BOOLEAN :
          IF ok
          THEN /\ pc' = "analyze"
               /\ stages' = Append(stages, "FETCH")
               /\ UNCHANGED <<posVars, waitVars, cfg, storeFaults, cycle, analysis_count,
                              email_alerts_sent, call, analysis_result,
                              should_send_email, record_id, email_sent, records,
                              alerts, deliveries, returned, failed, count0,
                              interrupted>>
          ELSE CycleExcept("FETCH")

\* trading_bot.py 45: analyze_market_data.  Building the prompt (line 62,
\* outside the try block) may raise; the API call and the parsing are inside.
Analyze ==
    /\ pc = "analyze"
    /\ \E promptOk \in BOOLEAN, c \in CycleCalls :
          IF promptOk
          THEN /\ call' = c
               /\ analysis_result' = AnalyzeMarketData(c.api, c.response)
               /\ pc' = "persist"
               /\ stages' = Append(Append(stages, "ANALYZE"), "NORMALIZE")
               /\ UNCHANGED <<posVars, waitVars, cfg, storeFaults, cycle, analysis_count,
                              email_alerts_sent, should_send_email, record_id,
                              email_sent, records, alerts, deliveries, returned,
                              failed, count0, interrupted>>
          ELSE CycleExcept("ANALYZE")

\* trading_bot.py 48-68: analysis_data is built and saved
Persist ==
    /\ pc = "persist"
    /\ \E store \in StoreOutcomes :
          IF ~PrepareOk(analysis_result)
          THEN CycleExcept("PREPARE")
          ELSE IF store = "raise"
               THEN CycleExcept("PERSIST")
               ELSE /\ records' = SaveAnalysis(records, cycle)
                    /\ record_id' = Len(records) + 1
                    /\ pc' = "decide"
                    /\ stages' = Append(stages, "PERSIST")
                    /\ UNCHANGED <<posVars, waitVars, cfg, storeFaults, cycle, analysis_count,
                                   email_alerts_sent, call, analysis_result,
                                   should_send_email, email_sent, alerts,
                                   deliveries, returned, failed, count0,
                                   interrupted>>

\* trading_bot.py 71-76: the decision; email_sent is False when it is no
Decide ==
    /\ pc = "decide"
    /\ LET d == ShouldSendEmailAlert(analysis_result, cfg)
       IN  IF d = "RAISE"
           THEN CycleExcept("DECIDE")
           ELSE /\ should_send_email' = d
                /\ email_sent' = IF d = "FALSE" THEN "FALSE" ELSE email_sent
                /\ pc' = IF d = "TRUE" THEN "notify" ELSE "report"
                /\ stages' = Append(stages, "DECIDE")
                /\ UNCHANGED <<posVars, waitVars, cfg, storeFaults, cycle, analysis_count,
                               email_alerts_sent, call, analysis_result,
                               record_id, records, alerts, deliveries, returned,
                               failed, count0, interrupted>>

\* mutant: the record is marked whatever the notifier returned
SendEmailAlertMarksAlways(success, alertStore, markStore) ==
    /\ deliveries' = Append(deliveries,
            [cycle |-> cycle, record_id |-> record_id, success |-> success])
    /\ alerts' = SaveEmailAlert(alerts, record_id, success)
    /\ records' = MarkEmailSent(records, record_id)
    /\ email_alerts_sent' = email_alerts_sent + 1

\* TradingAnalysisBot._send_email_alert: the notifier returns success or
\* failure (it raises nothing); the alert-log entry is saved, and after a
\* success the record is marked and the counter goes up.  An exception of
\* either store call is caught at line 213 and ends the method.
SendEmailAlert(success, alertStore, markStore) ==
    /\ deliveries' = Append(deliveries,
            [cycle |-> cycle, record_id |-> record_id, success |-> success])
    /\ IF alertStore = "raise"
       THEN UNCHANGED <<alerts, records, email_alerts_sent>>
       ELSE /\ alerts' = SaveEmailAlert(alerts, record_id, success)
            /\ IF success /\ markStore = "ok"
               THEN /\ records' = MarkEmailSent(records, record_id)
                    /\ email_alerts_sent' = email_alerts_sent + 1
               ELSE UNCHANGED <<records, email_alerts_sent>>

\* trading_bot.py 72-74: the alert is sent and email_sent is set
Notify ==
    /\ pc = "notify"
    /\ \E success \in BOOLEAN, alertStore \in StoreOutcomes,
          markStore \in StoreOutcomes :
          SendEmailAlert(success, alertStore, markStore)
    /\ email_sent' = "TRUE"
    /\ pc' = "report"
    /\ stages' = Append(stages, "NOTIFY")
    /\ UNCHANGED <<posVars, waitVars, cfg, storeFaults, cycle, analysis_count, call,
                   analysis_result, should_send_email, record_id, returned,
                   failed, count0, interrupted>>

\* trading_bot.py 79-85: the result is printed (the position snapshot read
\* for it may make the printing raise), the counter goes up and the cycle
\* returns analysis_data
Report ==
    /\ pc = "report"
    /\ \E positionsOk \in BOOLEAN :
          IF PrintOk(analysis_result) /\ positionsOk
          THEN /\ analysis_count' = analysis_count + 1
               /\ returned' = "data"
               /\ failed' = "none"
               /\ pc' = "wait"
               /\ stages' = Append(stages, "REPORT")
               /\ UNCHANGED <<posVars, waitVars, cfg, storeFaults, cycle, email_alerts_sent, call,
                              analysis_result, should_send_email, record_id,
                              email_sent, records, alerts, deliveries, count0,
                              interrupted>>
          ELSE CycleExcept("REPORT")

\* trading_bot.py 318-323: statistics, then the cycle's duration is measured
\* and the wait computed
Wait ==
    /\ pc = "wait"
    /\ \E e \in ElapsedTimes(cfg.analysis_interval) :
          /\ elapsed' = e
          /\ wait_time' = WaitTime(cfg.analysis_interval, e)
    /\ pc' = "sleep"
    /\ UNCHANGED <<posVars, cfg, storeFaults, cycle, analysis_count, email_alerts_sent,
                   call, analysis_result, should_send_email, record_id,
                   email_sent, records, alerts, deliveries, returned, failed,
                   count0, stages, interrupted>>

\* trading_bot.py 325-326: time.sleep(wait_time) returns; elapsed and
\* wait_time are not read again before the next iteration assigns them
Sleep ==
    /\ pc = "sleep"
    /\ pc' = "loop"
    /\ elapsed' = 0
    /\ wait_time' = 0
    /\ UNCHANGED <<posVars, cfg, storeFaults, cycle, analysis_count,
                   email_alerts_sent, call, analysis_result,
                   should_send_email, record_id, email_sent, records, alerts,
                   deliveries, returned, failed, count0, stages, interrupted>>

\* trading_bot.py 328-330: KeyboardInterrupt, at any point of the loop, the
\* sleep included; the loop is left and its elapsed and wait_time with it
Interrupt ==
    /\ pc \in {"loop", "fetch", "analyze", "persist", "decide", "notify",
               "report", "wait", "sleep"}
    /\ pc' = "stopped"
    /\ interrupted' = TRUE
    /\ elapsed' = 0
    /\ wait_time' = 0
    /\ UNCHANGED <<posVars, cfg, storeFaults, cycle, analysis_count, email_alerts_sent,
                   call, analysis_result, should_send_email, record_id,
                   email_sent, records, alerts, deliveries, returned, failed,
                   count0, stages>>

\* the steps the bot takes by itself
Progress ==
    \/ StartCycle
    \/ Fetch
    \/ Analyze
    \/ Persist
    \/ Decide
    \/ Notify
    \/ Report
    \/ Wait
    \/ Sleep

Next == Progress \/ Interrupt

Spec == Init /\ [][Next]_vars

\* The loop is one thread that runs on between two interrupts: a step that
\* stays possible is taken.  The store may raise in this specification.
LiveSpec == InitFaulty /\ [][Next]_vars /\ WF_vars(Progress)

(***************************************************************************)
(* Claims about the parser and the decision (checked under SpecFn)         *)
(***************************************************************************)
Decided == pc = "fn_decided"
Parsed == pc \in {"fn_parsed", "fn_decided"}

\* the recommendation names an action: a string
ActionIsString == analysis_result.recommendation.t = "str"
\* the action is written as the enumeration writes it, or is the sentinel
CanonicalAction ==
    /\ ActionIsString
    /\ analysis_result.recommendation.s \in Actions \cup {UNKNOWN}
Urgent == Truthy(Get(analysis_result.urgent_action, Bool(FALSE)))
ConfidenceIsNumber == analysis_result.confidence.t = "num"
Confidence == analysis_result.confidence.n

C2_ConfidenceGate ==
    (Decided /\ ActionIsString /\ ~Urgent /\ ConfidenceIsNumber) =>
        /\ Confidence < cfg.confidence_threshold => should_send_email = "FALSE"
        /\ (/\ Confidence = cfg.confidence_threshold
            /\ analysis_result.recommendation.s \in {"BUY_LONG", "BUY_SHORT", "SELL"})
              => should_send_email = "TRUE"

C2_Witness ==
    /\ Decided
    /\ ~Urgent
    /\ analysis_result.recommendation = Str("ADJUST_STOPS")
    /\ analysis_result.stop_adjustment.adjustment_percent = Num(35)
    /\ ConfidenceIsNumber
    /\ Confidence = 79
    /\ cfg.confidence_threshold = 80
    /\ should_send_email = "FALSE"

\* C3: without urgent_action and with a confidence at or above the threshold,
\* an action other than ADJUST_STOPS notifies exactly when it is BUY_LONG,
\* BUY_SHORT or SELL; HOLD and WATCH do not notify.
C3_ActionGate ==
    (/\ Decided
     /\ CanonicalAction
     /\ ~Urgent
     /\ ConfidenceIsNumber
     /\ Confidence >= cfg.confidence_threshold
     /\ analysis_result.recommendation.s # "ADJUST_STOPS") =>
        /\ should_send_email \in {"TRUE", "FALSE"}
        /\ should_send_email = "TRUE" <=>
              analysis_result.recommendation.s \in {"BUY_LONG", "BUY_SHORT", "SELL"}

C3_Witness ==
    /\ Decided
    /\ ~Urgent
    /\ analysis_result.recommendation = Str("HOLD")
    /\ analysis_result.confidence = Num(90)
    /\ should_send_email = "FALSE"

\* adjustment_percent is absent (missing or null)
PercentAbsent ==
    analysis_result.stop_adjustment.adjustment_percent.t \in {"missing", "null"}
\* adjustment_percent is a number or a string that spells one
PercentIsNumber == FloatOk(analysis_result.stop_adjustment.adjustment_percent)

\* C4: without urgent_action and with a confidence at or above the threshold,
\* ADJUST_STOPS notifies exactly when adjustment_percent is present and its
\* absolute value is strictly greater than the adjustment threshold.
C4_AdjustStops ==
    (/\ Decided
     /\ ~Urgent
     /\ ConfidenceIsNumber
     /\ Confidence >= cfg.confidence_threshold
     /\ analysis_result.recommendation = Str("ADJUST_STOPS")
     /\ analysis_result.stop_adjustment.t = "obj"
     /\ PercentAbsent \/ PercentIsNumber) =>
        /\ should_send_email \in {"TRUE", "FALSE"}
        /\ should_send_email = "TRUE" <=>
              /\ ~PercentAbsent
              /\ Abs(analysis_result.stop_adjustment.adjustment_percent.n)
                    > cfg.adjustment_threshold

C4_Witness ==
    /\ Decided
    /\ ~Urgent
    /\ analysis_result.confidence = Num(90)
    /\ analysis_result.recommendation = Str("ADJUST_STOPS")
    /\ analysis_result.stop_adjustment.adjustment_percent = Num(0 - 20)
    /\ cfg.adjustment_threshold = 20
    /\ should_send_email = "FALSE"

\* C5: whatever _parse_analysis_response returns, the decision evaluates to
\* a boolean: it never raises on a null or wrongly typed field.
C5_ParsedResultAccepted ==
    (Decided /\ call.api = "ok") => should_send_email \in {"TRUE", "FALSE"}

\* the response carries content in which the parser finds a JSON object
ParsesAsJson(response) ==
    /\ response.envelope
    /\ ContainsOpen(response.text)
    /\ ContainsClose(response.text)
    /\ JsonLoadsOk(JsonStr(response.text))

Required(result) ==
    {result.recommendation, result.confidence, result.analysis, result.reasoning}

\* C7: whatever the response (no envelope, no JSON, invalid JSON, JSON with
\* keys missing), the parsed result has the four required fields.
C7_RequiredFieldsPresent ==
    (Parsed /\ call.api = "ok") =>
        \A v \in Required(analysis_result) : v.t # "missing"

C7_Witness ==
    /\ pc = "fn_parsed"
    /\ call.api = "ok"
    /\ ParsesAsJson(call.response)
    /\ call.response.text = <<"p", "O", "p">>
    /\ call.response.obj.confidence = Missing
    /\ call.response.obj.recommendation = Missing
    /\ analysis_result.confidence = Str(UNKNOWN)

(***************************************************************************)
(* Claims about the cycle and the loop                                     *)
(***************************************************************************)
CycleEnded == pc = "wait"
RecordOfCycle(c) == \E i \in 1..Len(records) : records[i].cycle = c
DeliveryInCycle(c) == \E i \in 1..Len(deliveries) : deliveries[i].cycle = c

\* the content parses as a JSON object that lacks a required key
OmitsRequired(response) ==
    /\ ParsesAsJson(response)
    /\ \E v \in Required(JsonLoads(JsonStr(response.text), response.obj)) :
          v.t = "missing"

\* C6: a parseable JSON payload that omits required fields does not abort the
\* cycle: the record is persisted and the cycle returns its result (unless a
\* later stage, DECIDE or REPORT, fails for a reason of its own).
C6_MissingFieldsDoNotAbort ==
    (CycleEnded /\ call.api = "ok" /\ OmitsRequired(call.response)) =>
        /\ RecordOfCycle(cycle)
        /\ returned = "data" \/ failed \in {"DECIDE", "REPORT"}

\* C8: a failed delivery leaves the record of the cycle persisted with its
\* sent flag false; a record is marked at most once and only after a
\* successful delivery; every attempt has its alert-log entry, which carries
\* the success flag.
C8_FailedDeliveryKeepsRecord ==
    /\ Len(alerts) = Len(deliveries)
    /\ \A i \in 1..Len(deliveries) :
          /\ deliveries[i].record_id \in 1..Len(records)
          /\ records[deliveries[i].record_id].cycle = deliveries[i].cycle
          /\ ~deliveries[i].success =>
                ~records[deliveries[i].record_id].email_sent
          /\ i <= Len(alerts)
          /\ alerts[i] = [record_id |-> deliveries[i].record_id,
                          sent_successfully |-> deliveries[i].success]
    /\ \A r \in 1..Len(records) :
          /\ records[r].marks <= 1
          /\ records[r].email_sent <=> records[r].marks = 1
          /\ records[r].email_sent =>
                \E i \in 1..Len(deliveries) :
                    deliveries[i].record_id = r /\ deliveries[i].success

C8_Witness ==
    /\ CycleEnded
    /\ returned = "data"
    /\ \E i \in 1..Len(deliveries) :
          /\ deliveries[i].cycle = cycle
          /\ ~deliveries[i].success
          /\ ~records[deliveries[i].record_id].email_sent

\* C9: when FETCH or ANALYZE raises, the cycle returns None: no record is
\* persisted, no delivery is attempted and analysis_count keeps its value.
C9_FetchAnalyzeFailureSkipsCycle ==
    (CycleEnded /\ failed \in {"FETCH", "ANALYZE"}) =>
        /\ returned = "None"
        /\ ~RecordOfCycle(cycle)
        /\ ~DeliveryInCycle(cycle)
        /\ analysis_count = count0

C9_Witness ==
    /\ CycleEnded
    /\ failed = "ANALYZE"
    /\ cycle = 2
    /\ Len(records) = 1
    /\ analysis_count = 1

\* C10: whatever happened in a cycle, the loop goes on to start the next
\* cycle unless the operator interrupts, and nothing but the interrupt stops
\* the loop.
C10_LoopLive ==
    /\ \A k \in 0..(MaxCycles - 1) :
          (cycle = k /\ pc # "stopped") ~> (cycle = k + 1 \/ interrupted)
    /\ [](pc = "stopped" => interrupted)

C10_Witness ==
    /\ cycle = 2
    /\ pc = "fetch"
    /\ returned = "None"
    /\ failed = "REPORT"
    /\ Len(records) = 1
    /\ ~interrupted

(***************************************************************************)
(* Claims about the analyzer's results (checked under SpecFn)              *)
(***************************************************************************)
\* C11: a transport error of the LLM call is not propagated: the analyzer
\* returns HOLD with confidence 0 and the error text in its reasoning, and
\* this result never notifies, whatever the confidence threshold.
C11_TransportErrorDegrades ==
    (Parsed /\ call.api \in ApiErrors) =>
        /\ analysis_result.recommendation = Str("HOLD")
        /\ analysis_result.confidence = Num(0)
        /\ analysis_result.reasoning =
              Str("analysis_error: " \o ApiErrorText(call.api))
        /\ Decided => should_send_email = "FALSE"

C11_Witness ==
    /\ Decided
    /\ call.api = "timeout"
    /\ cfg.confidence_threshold <= 0
    /\ analysis_result.confidence = Num(0)
    /\ should_send_email = "FALSE"

\* the content has both braces and the span between them is not valid JSON
InvalidJsonSpan(response) ==
    /\ response.envelope
    /\ ContainsOpen(response.text)
    /\ ContainsClose(response.text)
    /\ ~JsonLoadsOk(JsonStr(response.text))

\* C12: a span that is not valid JSON (the last "}" before the first "{"
\* included) gives the result of the no-JSON path: HOLD, confidence 50, the
\* whole text as analysis and reasoning.  The parser returns its
\* parse-failure result instead (confidence 0, fixed texts).
C12_InvalidSpanIsTextFallback ==
    (Parsed /\ call.api = "ok" /\ InvalidJsonSpan(call.response)) =>
        /\ analysis_result.recommendation = Str("HOLD")
        /\ analysis_result.confidence = Num(50)
        /\ analysis_result.analysis = Content(call.response.text)
        /\ analysis_result.reasoning = Content(call.response.text)

\* the keys of an analysis result
Keys ==
    {"recommendation", "confidence", "analysis", "reasoning", "support_levels",
     "resistance_levels", "position_action", "stop_adjustment",
     "urgent_action", "urgent_reason"}

\* the object written between the first "{" and the last "}" of a content
\* that parses: the members of the one complete object, or none for "{}"
SpanObject(response) ==
    IF JsonStr(response.text) = <<"O">> THEN response.obj ELSE EmptyDict

\* what the result holds for a key the parsed object does not have
ParserDefault(k) ==
    CASE k \in {"recommendation", "confidence", "analysis", "reasoning"} ->
            Str(UNKNOWN)
      [] k = "position_action" -> Str("HOLD")
      [] k = "stop_adjustment" -> DefaultStopAdjustment
      [] k = "urgent_action" -> Bool(FALSE)
      [] k = "urgent_reason" -> Str("")
      [] OTHER -> Missing

NoSpan(response) ==
    response.envelope /\ ~(ContainsOpen(response.text) /\ ContainsClose(response.text))

TextResult(response) ==
    /\ analysis_result.recommendation = Str("HOLD")
    /\ analysis_result.confidence = Num(50)
    /\ analysis_result.analysis = Content(response.text)
    /\ analysis_result.reasoning = Content(response.text)

SubFields == {"should_adjust", "new_take_profit", "new_stop_loss", "reason"}

\* C14: after parsing, stop_adjustment has should_adjust, new_take_profit,
\* new_stop_loss and reason: the whole default when the object has no
\* stop_adjustment, and for a partly filled one each missing subfield is the
\* default's while the supplied subfields are kept.  The parser keeps a
\* partly filled stop_adjustment as it is, without the missing subfields.
C14_StopAdjustmentSubfieldsDefaulted ==
    (/\ Parsed
     /\ call.api = "ok"
     /\ ParsesAsJson(call.response)
     /\ SpanObject(call.response).stop_adjustment.t \in {"missing", "obj"}) =>
        /\ analysis_result.stop_adjustment.t = "obj"
        /\ \A f \in SubFields :
            IF SpanObject(call.response).stop_adjustment[f].t = "missing"
            THEN analysis_result.stop_adjustment[f] = DefaultStopAdjustment[f]
            ELSE analysis_result.stop_adjustment[f] =
                    SpanObject(call.response).stop_adjustment[f]

(***************************************************************************)
(* Claims about positions (checked under SpecPos)                          *)
(***************************************************************************)
Valued == pc \in {"pos_valued", "pos_done"} /\ pnl.ok /\ other_pnl.ok
Tested == pc = "pos_done" /\ pnl.ok
Absent(level) == level.t \in {"missing", "null"}

\* C15: with both levels set, a long position gives TAKE_PROFIT when the
\* price is at or above take_profit, otherwise STOP_LOSS when it is at or
\* below stop_loss, otherwise NONE; a short position the same with the
\* comparisons turned round; take-profit wins when both levels are crossed.
C15_TriggerOrder ==
    (Tested /\ ~Absent(position.take_profit) /\ ~Absent(position.stop_loss)) =>
        IF position.direction = "long"
        THEN /\ current_price >= position.take_profit.n =>
                    triggered = "TAKE_PROFIT"
             /\ (/\ current_price < position.take_profit.n
                 /\ current_price <= position.stop_loss.n) =>
                    triggered = "STOP_LOSS"
             /\ (/\ current_price < position.take_profit.n
                 /\ current_price > position.stop_loss.n) =>
                    triggered = "NONE"
        ELSE /\ current_price <= position.take_profit.n =>
                    triggered = "TAKE_PROFIT"
             /\ (/\ current_price > position.take_profit.n
                 /\ current_price >= position.stop_loss.n) =>
                    triggered = "STOP_LOSS"
             /\ (/\ current_price > position.take_profit.n
                 /\ current_price < position.stop_loss.n) =>
                    triggered = "NONE"

\* a long position with both levels crossed
C15_Witness ==
    /\ Tested
    /\ position.direction = "long"
    /\ position.take_profit = Num(90)
    /\ position.stop_loss = Num(110)
    /\ current_price = 100
    /\ triggered = "TAKE_PROFIT"

\* C16: with take_profit and/or stop_loss absent (null or missing) the
\* trigger test completes without an error and the absent level does not
\* trigger; with both absent the result is NONE.  The test reads the levels
\* with pos['take_profit'] and pos['stop_loss'] and compares the price with
\* them, which raises for a missing key and for None.
C16_AbsentLevelsNeverTrigger ==
    (Tested /\ (Absent(position.take_profit) \/ Absent(position.stop_loss))) =>
        /\ triggered # "RAISE"
        /\ Absent(position.take_profit) => triggered # "TAKE_PROFIT"
        /\ Absent(position.stop_loss) => triggered # "STOP_LOSS"
        /\ (Absent(position.take_profit) /\ Absent(position.stop_loss)) =>
                triggered = "NONE"

\* what the position has gained per unit at the price
Gain(pos, price) ==
    IF pos.direction = "long" THEN price - pos.entry_price
    ELSE pos.entry_price - price

\* C17 as stated: pnl_percent is (gain / entry) * 100 * leverage and
\* pnl_amount is gain * size, exactly.
C17_PnlExact ==
    (Valued /\ position.entry_price > 0) =>
        /\ pnl.pnl_percent * position.entry_price =
                Gain(position, current_price) * 10000 * position.leverage
        /\ pnl.pnl_amount * 10 = Gain(position, current_price) * position.size

\* C17 as amended: pnl_percent is (gain / entry) * 100 * leverage rounded to
\* two decimal places and pnl_amount is gain * size rounded to four; long,
\* entry 100, size 1, leverage 5 at price 110 gives 50 and 10, and a price
\* equal to the entry gives pnl_percent 0.
C17_PnlRounded ==
    (Valued /\ position.entry_price > 0) =>
        /\ 2 * Abs(pnl.pnl_percent * position.entry_price
                   - Gain(position, current_price) * 10000 * position.leverage)
                <= position.entry_price
        /\ 2 * Abs(pnl.pnl_amount * 10
                   - Gain(position, current_price) * position.size) <= 10
        /\ (/\ position.direction = "long"
            /\ position.entry_price = 100
            /\ position.size = 100000
            /\ position.leverage = 5
            /\ current_price = 110) =>
                pnl.pnl_percent = 5000 /\ pnl.pnl_amount = 100000
        /\ current_price = position.entry_price => pnl.pnl_percent = 0

\* a gain of a third of the entry: 33.33 percent
C17_Witness ==
    /\ Valued
    /\ position.direction = "long"
    /\ position.entry_price = 3
    /\ position.leverage = 1
    /\ position.size = 100000
    /\ current_price = 4
    /\ pnl.pnl_percent = 3333
    /\ pnl.pnl_amount = 10000

\* C18: for entry > 0 (size > 0 and leverage >= 1 in every position), a
\* price that is not lower gives a long position a pnl_percent and a
\* pnl_amount that are not lower, and a short position ones that are not
\* higher.
C18_PnlMonotone ==
    (Valued /\ position.entry_price > 0 /\ current_price <= other_price) =>
        IF position.direction = "long"
        THEN /\ pnl.pnl_percent <= other_pnl.pnl_percent
             /\ pnl.pnl_amount <= other_pnl.pnl_amount
        ELSE /\ pnl.pnl_percent >= other_pnl.pnl_percent
             /\ pnl.pnl_amount >= other_pnl.pnl_amount

C18_Witness ==
    /\ Valued
    /\ position.direction = "short"
    /\ position.entry_price = 100
    /\ current_price = 90
    /\ other_price = 110
    /\ pnl.pnl_percent > 0
    /\ other_pnl.pnl_percent < 0

(***************************************************************************)
(* Claims about the loop's wait and the order of the stages (checked under *)
(* Spec)                                                                   *)
(***************************************************************************)
\* C19: the loop sleeps max(1, interval - elapsed) seconds: at least one
\* second whatever the interval and the duration of the cycle, and what is
\* left of the interval whenever that is at least one second (times in
\* tenths of a second).
C19_WaitFloor ==
    pc = "sleep" =>
        /\ wait_time >= 10
        /\ 10 * cfg.analysis_interval - elapsed >= 10 =>
                wait_time = 10 * cfg.analysis_interval - elapsed
        /\ 10 * cfg.analysis_interval - elapsed < 10 => wait_time = 10

\* a cycle that overran its interval
C19_Witness ==
    /\ pc = "sleep"
    /\ cfg.analysis_interval > 0
    /\ elapsed > 10 * cfg.analysis_interval
    /\ wait_time = 10

\* the stages of a cycle in their order, with and without NOTIFY
StageOrders ==
    {<<"FETCH", "ANALYZE", "NORMALIZE", "PERSIST", "DECIDE", "NOTIFY", "REPORT">>,
     <<"FETCH", "ANALYZE", "NORMALIZE", "PERSIST", "DECIDE", "REPORT">>}
IsPrefix(s, t) == Len(s) <= Len(t) /\ SubSeq(t, 1, Len(s)) = s
Done(stage) == \E i \in 1..Len(stages) : stages[i] = stage

\* the stages completed so far are a beginning of the order; NOTIFY is done
\* only after a decision to notify; every delivery attempt names a record
\* saved in its own cycle
StagesInOrder ==
    /\ \E order \in StageOrders : IsPrefix(stages, order)
    /\ Done("NOTIFY") => should_send_email = "TRUE"
    /\ \A i \in 1..Len(deliveries) :
          /\ deliveries[i].record_id \in 1..Len(records)
          /\ records[deliveries[i].record_id].cycle = deliveries[i].cycle

\* no step takes back what a completed stage has done: the records, the
\* alert-log entries and the delivery attempts stay, a sent flag stays set
EffectsKept ==
    /\ Len(records') >= Len(records)
    /\ \A i \in 1..Len(records) :
          /\ records'[i].cycle = records[i].cycle
          /\ records[i].email_sent => records'[i].email_sent
    /\ IsPrefix(alerts, alerts')
    /\ IsPrefix(deliveries, deliveries')

\* C20: within a cycle the stages are completed in the order FETCH, ANALYZE,
\* NORMALIZE, PERSIST, DECIDE, NOTIFY (only after a decision to notify),
\* REPORT; a notification is attempted only for a record already saved in
\* that cycle; and whatever a completed stage has done is kept when a later
\* stage fails.
C20_StagesInOrderEffectsKept == []StagesInOrder /\ [][EffectsKept]_vars

\* the report failed after the record was saved and the alert attempted
C20_Witness ==
    /\ pc = "wait"
    /\ failed = "REPORT"
    /\ Done("NOTIFY")
    /\ ~Done("REPORT")
    /\ RecordOfCycle(cycle)
    /\ DeliveryInCycle(cycle)

(***************************************************************************)
(* Claims about the reported flag and the inputs of the decision (checked  *)
(* under Spec)                                                             *)
(***************************************************************************)
\* C21: the email_sent flag a cycle reports and returns is true only when
\* the delivery of that cycle succeeded: it agrees with the sent flag of the
\* cycle's record.  The cycle sets the flag after every attempt, whatever
\* the notifier returned.
C21_EmailSentAgreesWithRecord ==
    (/\ pc \in {"report", "wait"}
     /\ email_sent # "unset"
     /\ record_id \in 1..Len(records)) =>
        /\ email_sent = "TRUE" <=> records[record_id].email_sent
        /\ email_sent = "TRUE" =>
              \E i \in 1..Len(deliveries) :
                  deliveries[i].cycle = cycle /\ deliveries[i].success

====
